---- MODULE Spec2Model ----
(***************************************************************************)
(* screen-client: a packed 1-bit framebuffer (Display), the coordinate     *)
(* mapping get_bit, the scene composition of main and the length-prefixed  *)
(* transfer to the serial port.                                            *)
(*                                                                         *)
(* Three specifications over the same variables:                           *)
(*   Spec        one run of main (fetch, parse, compose, transfer);        *)
(*   SpecDisplay a Display over a fresh buffer driven by set_pixel / draw  *)
(*               calls with arbitrary small pixel sources;                 *)
(*   SpecMap     get_bit applied, as set_pixel applies it, to every        *)
(*               coordinate of the grid and a margin around it.            *)
(***************************************************************************)
EXTENDS Integers, Sequences, FiniteSets, TLC

VARIABLES pc, outcome, forecast, buff, serial, drawn, count, glyph,
          overflow_checks, probe

vars == <<pc, outcome, forecast, buff, serial, drawn, count, glyph,
          overflow_checks, probe>>

----------------------------------------------------------------------------
(* Program constants and machine arithmetic                                *)

ROWS == 128

COLS == 250

\* A u32 is kept as its two 16-bit halves, value hi * 2^16 + lo, so that
\* every u32 up to 2^32 - 1 is a value of the model.
Half == 256 * 256

\* the u32 that the integer v is congruent to modulo 2^32, for |v| < 2^31
WrapU32(v) ==
    IF v >= 0 THEN [hi |-> v \div Half, lo |-> v % Half]
    ELSE [hi |-> Half + (v \div Half), lo |-> v % Half]

\* u < n for a u32 u and 0 <= n < 2^16
Below(u, n) == u.hi = 0 /\ u.lo < n

\* length of the buffer: ROWS as usize * COLS as usize / 8
BufLen == (ROWS * COLS) \div 8

\* Option<T>: None is the empty tuple, Some(v) the one-element tuple
None == << >>

Some(v) == << v >>

IsSome(o) == Len(o) = 1

Unwrap(o) == o[1]

Colors == {"Black", "White"}

Pixel(x, y, c) == [x |-> x, y |-> y, c |-> c]

Pow2(n) == IF n = 0 THEN 1 ELSE IF n = 1 THEN 2 ELSE IF n = 2 THEN 4
           ELSE IF n = 3 THEN 8 ELSE IF n = 4 THEN 16 ELSE IF n = 5 THEN 32
           ELSE IF n = 6 THEN 64 ELSE 128

\* whether the bits of mask m (one bit) are set in byte b
BitSet(b, m) == (b \div m) % 2 = 1

\* b & !m  and  b | m  for a one-bit mask m
AndNot(b, m) == IF BitSet(b, m) THEN b - m ELSE b

Or(b, m) == IF BitSet(b, m) THEN b ELSE b + m

----------------------------------------------------------------------------
(* get_bit: (index, mask) of a coordinate, in u32 arithmetic.  With        *)
(* x, y, width, height below 2^16 only height - 1 - x can leave the u32    *)
(* range; the product and the sum then continue modulo 2^32, so the index  *)
(* is the u32 congruent to y / 8 + (height - 1 - x) * (width / 8).  `ovf`  *)
(* says whether the subtraction wrapped (a panic under overflow checks).   *)

get_bit_off_by_one(x, y, width, height) ==
    LET d == height - x
    IN  [index |-> WrapU32((y \div 8) + d * (width \div 8)),
         bit   |-> 128 \div Pow2(y % 8),
         ovf   |-> d < 0]

get_bit(x, y, width, height) ==
    LET d == height - 1 - x
    IN  [index |-> WrapU32((y \div 8) + d * (width \div 8)),
         bit   |-> 128 \div Pow2(y % 8),
         ovf   |-> d < 0]

----------------------------------------------------------------------------
(* Display.  The byte array is kept in sparse form: `len` bytes, each      *)
(* equal to `fill` except the bytes listed in `diff` (index, from 0, to    *)
(* value).  diff never lists a byte equal to fill, so two buffers are      *)
(* equal exactly when they hold the same bytes.  A display value is the    *)
(* buffer together with whether a call on it has panicked (the buffer      *)
(* then keeps the writes made before the panic).                           *)

Buffer(len, fill, diff) == [len |-> len, fill |-> fill, diff |-> diff]

\* buff[i]
ByteAt(b, i) == IF i \in DOMAIN b.diff THEN b.diff[i] ELSE b.fill

\* buff[i] = v
StoreByte(b, i, v) ==
    IF v = b.fill
    THEN [b EXCEPT !.diff = [j \in (DOMAIN b.diff) \ {i} |-> b.diff[j]]]
    ELSE [b EXCEPT !.diff = (i :> v) @@ b.diff]

Disp(b, p) == [buff |-> b, panicked |-> p]

\* line 58: ROWS is passed as get_bit's `width`, COLS as its `height`
pixel_addr_dims_exchanged(x, y) == get_bit(x, y, COLS, ROWS)

pixel_addr(x, y) == get_bit(x, y, ROWS, COLS)

\* the two match arms of set_pixel on byte b with mask m
write_bit_inverted(b, m, color) ==
    IF color = "Black" THEN Or(b, m) ELSE AndNot(b, m)

write_bit_assigned(b, m, color) ==
    IF color = "Black" THEN 255 - m ELSE m

write_bit(b, m, color) ==
    IF color = "Black" THEN AndNot(b, m) ELSE Or(b, m)

\* set_pixel under a build with (checks = TRUE) or without overflow checks:
\* an arithmetic overflow panics when checked, the index is bounds-checked
\* by the slice in every build
set_pixel(d, x, y, color, checks) ==
    LET a == pixel_addr(x, y)
    IN  IF d.panicked THEN d
        ELSE IF (a.ovf /\ checks) \/ ~Below(a.index, d.buff.len)
        THEN Disp(d.buff, TRUE)
        ELSE Disp(StoreByte(d.buff, a.index.lo,
                            write_bit(ByteAt(d.buff, a.index.lo), a.bit, color)),
                  FALSE)

\* draw: set_pixel for each pixel of the source, in the source's order
RECURSIVE draw_from(_, _, _, _)
draw_from(d, item_pixels, k, checks) ==
    IF k > Len(item_pixels) \/ d.panicked THEN d
    ELSE draw_from(set_pixel(d, item_pixels[k].x, item_pixels[k].y,
                             item_pixels[k].c, checks),
                   item_pixels, k + 1, checks)

draw(d, item_pixels, checks) == draw_from(d, item_pixels, 1, checks)

\* the bit of coordinate (x, y) in buffer b, as set_pixel addresses it
BitAt(b, x, y) ==
    LET a == pixel_addr(x, y) IN BitSet(ByteAt(b, a.index.lo), a.bit)

ColorBit(c) == c = "White"

----------------------------------------------------------------------------
(* The forecast.  A summary string is represented by the number of lines   *)
(* textwrap::fill(.., 20) splits it into (at least one); a bearing by its  *)
(* value in tenths of a degree; the other numbers only by their presence.  *)

\* most lines a wrapped summary has in the model
MaxLines == 3

Datapoint(t, p, w, b, s, i) ==
    [temperature |-> t, precip_probability |-> p, wind_speed |-> w,
     wind_bearing |-> b, summary |-> s, icon |-> i]

Forecast(c, d) == [currently |-> c, daily |-> d]

Datablock(data) == [data |-> data]

Presence == {None, Some(1)}

Summaries == {None} \cup {Some(n) : n \in 1..MaxLines}

Icons == {None, Some("ClearDay"), Some("ClearNight"),
          Some("PartlyCloudyDay"), Some("Rain")}

\* bearings in tenths of a degree: the sector boundaries, values next to
\* them, fractions, and values outside 0..360
Bearings == {0, 5, 219, 220, 450, 669, 670, 1119, 1120, 1570, 1800, 2019,
             2020, 2470, 2700, 2920, 3369, 3370, 3590, 3599, 3600, 4000,
             -5, -10, -900}

DailyBlocks ==
    {None, Some(Datablock(None)), Some(Datablock(Some(<< >>)))}
    \cup {Some(Datablock(Some(<<Datapoint(None, None, None, None, s, None)>>))) :
            s \in Summaries}

\* every combination of present and absent fields, and every bearing
Forecasts ==
    {Forecast(None, d) : d \in DailyBlocks}
    \cup {Forecast(Some(Datapoint(t, p, w, b, s, i)), d) :
            t \in Presence, p \in Presence, w \in Presence,
            b \in {None, Some(450)}, s \in Summaries, i \in Icons,
            d \in DailyBlocks}
    \cup {Forecast(Some(Datapoint(None, None, w, Some(b), None, None)), None) :
            w \in Presence, b \in Bearings}

NoForecast == Forecast(None, None)

----------------------------------------------------------------------------
(* Sources.  The rasterisers (profont, Image1BPP) are outside the          *)
(* repository: a source placed at (x, y) yields the pixels of `glyph`, a   *)
(* short list of (dx, dy, colour), translated by (x, y).                   *)

Ink(dx, dy, c) == [dx |-> dx, dy |-> dy, c |-> c]

Glyphs == { <<Ink(0, 0, "Black")>>,
            <<Ink(0, 0, "White"), Ink(1, 1, "Black"), Ink(0, 0, "Black")>> }

Item(name, x, y) == [item |-> name, x |-> x, y |-> y]

render(g, x, y) == [k \in 1..Len(g) |-> Pixel(x + g[k].dx, y + g[k].dy, g[k].c)]

\* `dir as i32`: truncation towards zero of the f64 (tenths of a degree)
AsI32(tenths) == IF tenths >= 0 THEN tenths \div 10 ELSE -((-tenths) \div 10)

\* the match on the bearing, lines 147-157
wind_icon_inclusive_upper(dir) ==
    LET b == AsI32(dir)
    IN  IF (337 <= b /\ b < 360) \/ (0 <= b /\ b <= 22) THEN "arrow_north"
        ELSE IF 22 < b /\ b <= 67 THEN "arrow_north_east"
        ELSE IF 67 < b /\ b <= 112 THEN "arrow_east"
        ELSE IF 112 < b /\ b <= 157 THEN "arrow_south_east"
        ELSE IF 157 < b /\ b <= 202 THEN "arrow_south"
        ELSE IF 202 < b /\ b <= 247 THEN "arrow_south_west"
        ELSE IF 247 < b /\ b <= 292 THEN "arrow_west"
        ELSE IF 292 < b /\ b < 337 THEN "arrow_north_west"
        ELSE "arrow_north"

wind_icon(dir) ==
    LET b == AsI32(dir)
    IN  IF (337 <= b /\ b < 360) \/ (0 <= b /\ b < 22) THEN "arrow_north"
        ELSE IF 22 <= b /\ b < 67 THEN "arrow_north_east"
        ELSE IF 67 <= b /\ b < 112 THEN "arrow_east"
        ELSE IF 112 <= b /\ b < 157 THEN "arrow_south_east"
        ELSE IF 157 <= b /\ b < 202 THEN "arrow_south"
        ELSE IF 202 <= b /\ b < 247 THEN "arrow_south_west"
        ELSE IF 247 <= b /\ b < 292 THEN "arrow_west"
        ELSE IF 292 <= b /\ b < 337 THEN "arrow_north_west"
        ELSE "arrow_north"

\* the value of `count` when line i (from 0) of the current summary is
\* drawn: count += i as i32 on every iteration, line 174
RECURSIVE summary_count(_)
summary_count(i) == IF i = 0 THEN 0 ELSE summary_count(i - 1) + i

\* the draws of the "Currently: " loop for a summary of n lines
summary_items(n) ==
    [k \in 1..n |-> Item("currently_line", 130, 20 + summary_count(k - 1) * 10)]

\* the draws of the "Today: " loop for a summary of n lines, lines 188-194
daily_items(n, cnt) ==
    [k \in 1..n |-> Item("today_line", 130, 20 + ((k - 1) + cnt) * 10)]

\* display.draw of each item in turn; a panic ends the run, so nothing
\* after it is drawn
RECURSIVE draw_items(_, _, _, _, _)
draw_items(st, items, k, g, checks) ==
    IF k > Len(items) \/ st.d.panicked THEN st
    ELSE draw_items([d   |-> draw(st.d, render(g, items[k].x, items[k].y), checks),
                     log |-> Append(st.log, items[k])],
                    items, k + 1, g, checks)

----------------------------------------------------------------------------
(* main, one run.  pc is the place in main; outcome is "running", then     *)
(* "ok" (Ok(()) returned), "err" (an error returned by `?`) or "panic".    *)
(* Before line 108 there is no buffer: buff is NoBuffer.                   *)
(* serial is the sequence of byte strings the serial port has been given,  *)
(* one per successful write call; drawn lists the display.draw calls.      *)

NoProbe == [op |-> "none"]

NoBuffer == Buffer(0, 0, << >>)

\* big-endian bytes of a u32, write_u32::<BigEndian>
be_u32_little_endian(n) ==
    <<n % 256, (n \div 256) % 256, (n \div 65536) % 256, (n \div 16777216) % 256>>

be_u32(n) ==
    <<(n \div 16777216) % 256, (n \div 65536) % 256, (n \div 256) % 256, n % 256>>

Init ==
    /\ pc = "open"
    /\ outcome = "running"
    /\ forecast = NoForecast
    /\ buff = NoBuffer
    /\ serial = << >>
    /\ drawn = << >>
    /\ count = 0
    /\ glyph \in Glyphs
    /\ overflow_checks \in BOOLEAN
    /\ probe = NoProbe

\* line 85: open(..).expect(..)
Open ==
    /\ pc = "open" /\ outcome = "running"
    /\ \/ pc' = "fetch" /\ outcome' = "running"
       \/ pc' = "open" /\ outcome' = "panic"
    /\ UNCHANGED <<forecast, buff, serial, drawn, count, glyph,
                   overflow_checks, probe>>

\* lines 91-101: the request; each `?` returns the error
Fetch ==
    /\ pc = "fetch" /\ outcome = "running"
    /\ \/ pc' = "parse" /\ outcome' = "running"
       \/ pc' = "fetch" /\ outcome' = "err"
    /\ UNCHANGED <<forecast, buff, serial, drawn, count, glyph,
                   overflow_checks, probe>>

\* line 104: serde_json::from_reader(..)?
Parse ==
    /\ pc = "parse" /\ outcome = "running"
    /\ \/ \E f \in Forecasts :
            forecast' = f /\ pc' = "alloc" /\ outcome' = "running"
       \/ forecast' = forecast /\ pc' = "parse" /\ outcome' = "err"
    /\ UNCHANGED <<buff, serial, drawn, count, glyph, overflow_checks, probe>>

\* line 108: [255u8; ROWS as usize * COLS as usize / 8]
new_buffer_zeroed == Buffer(BufLen, 0, << >>)

new_buffer == Buffer(BufLen, 255, << >>)

Alloc ==
    /\ pc = "alloc" /\ outcome = "running"
    /\ buff' = new_buffer
    /\ pc' = "time"
    /\ UNCHANGED <<outcome, forecast, serial, drawn, count, glyph,
                   overflow_checks, probe>>

\* one composition step: the draws `items` in order, then on to `to`
Compose(from, to, items) ==
    /\ pc = from /\ outcome = "running"
    /\ LET st == draw_items([d |-> Disp(buff, FALSE), log |-> drawn],
                            items, 1, glyph, overflow_checks)
       IN  /\ buff' = st.d.buff
           /\ drawn' = st.log
           /\ outcome' = IF st.d.panicked THEN "panic" ELSE outcome
           /\ pc' = IF st.d.panicked THEN from ELSE to
    /\ UNCHANGED <<forecast, serial, glyph, overflow_checks, probe>>

Cur == Unwrap(forecast.currently)

\* lines 112-117
DrawTime ==
    /\ Compose("time", "date", <<Item("time", 0, 20)>>)
    /\ UNCHANGED count

\* lines 119-126
DrawDate ==
    /\ Compose("date",
               IF IsSome(forecast.currently) THEN "temperature" ELSE "write_len",
               <<Item("date", 0, 0)>>)
    /\ UNCHANGED count

\* lines 127-134
Temperature ==
    /\ pc = "temperature"
    /\ Compose("temperature", "precip",
               IF IsSome(Cur.temperature)
               THEN <<Item("temperature", 130, 0)>> ELSE << >>)
    /\ UNCHANGED count

\* lines 135-142
Precip ==
    /\ pc = "precip"
    /\ Compose("precip", "wind",
               IF IsSome(Cur.precip_probability)
               THEN <<Item("precip", 162, 0)>> ELSE << >>)
    /\ UNCHANGED count

\* lines 143-168
Wind ==
    /\ pc = "wind"
    /\ Compose("wind", "summary",
               IF IsSome(Cur.wind_speed)
               THEN (IF IsSome(Cur.wind_bearing)
                     THEN <<Item(wind_icon(Unwrap(Cur.wind_bearing)), 86, 44)>>
                     ELSE << >>)
                    \o <<Item("wind_speed", 200, 0)>>
               ELSE << >>)
    /\ UNCHANGED count

\* lines 169-182
Summary ==
    /\ pc = "summary"
    /\ LET n == IF IsSome(Cur.summary) THEN Unwrap(Cur.summary) ELSE 0
       IN  /\ Compose("summary", "daily", summary_items(n))
           /\ count' = (IF n = 0 THEN 0 ELSE summary_count(n - 1)) + 1

\* lines 183-197; data[0] panics on an empty vector
Daily ==
    /\ pc = "daily" /\ outcome = "running"
    /\ IF /\ IsSome(forecast.daily)
          /\ IsSome(Unwrap(forecast.daily).data)
          /\ Len(Unwrap(Unwrap(forecast.daily).data)) = 0
       THEN /\ outcome' = "panic"
            /\ UNCHANGED <<pc, forecast, buff, serial, drawn, glyph,
                           overflow_checks, probe>>
       ELSE LET has == /\ IsSome(forecast.daily)
                       /\ IsSome(Unwrap(forecast.daily).data)
                       /\ IsSome(Unwrap(Unwrap(forecast.daily).data)[1].summary)
                n == IF has
                     THEN Unwrap(Unwrap(Unwrap(forecast.daily).data)[1].summary)
                     ELSE 0
            IN  Compose("daily", "icon", daily_items(n, count))
    /\ UNCHANGED count

\* lines 198-215
ConditionIcon ==
    /\ pc = "icon"
    /\ Compose("icon", "write_len",
               IF Cur.icon = Some("ClearDay") THEN <<Item("clearday", 86, 0)>>
               ELSE IF Cur.icon = Some("ClearNight")
               THEN <<Item("clearnight", 86, 0)>>
               ELSE IF Cur.icon = Some("PartlyCloudyDay")
               THEN <<Item("partlycloudyday", 86, 0)>>
               ELSE << >>)
    /\ UNCHANGED count

WriteLen_before_compose ==
    /\ outcome = "running"
    /\ \/ /\ pc = "time" /\ serial = << >>
          /\ serial' = <<be_u32(buff.len)>>
          /\ UNCHANGED <<pc, outcome>>
       \/ /\ pc = "write_len" /\ serial # << >>
          /\ pc' = "write_buf" /\ UNCHANGED <<serial, outcome>>
       \/ /\ pc = "write_len"
          /\ outcome' = "panic" /\ UNCHANGED <<pc, serial>>
    /\ UNCHANGED <<forecast, buff, drawn, count, glyph, overflow_checks, probe>>

\* lines 218-221: the length prefix, one write; unwrap panics on Err
WriteLen ==
    /\ pc = "write_len" /\ outcome = "running"
    /\ \/ /\ serial' = Append(serial, be_u32(buff.len))
          /\ pc' = "write_buf" /\ UNCHANGED outcome
       \/ /\ outcome' = "panic" /\ UNCHANGED <<pc, serial>>
    /\ UNCHANGED <<forecast, buff, drawn, count, glyph, overflow_checks, probe>>

\* lines 222-223: the payload, one write, then Ok(())
WritePayload ==
    /\ pc = "write_buf" /\ outcome = "running"
    /\ \/ /\ serial' = Append(serial, buff)
          /\ pc' = "done"
          /\ outcome' = "ok"
       \/ /\ outcome' = "panic" /\ UNCHANGED <<pc, serial>>
    /\ UNCHANGED <<forecast, buff, drawn, count, glyph, overflow_checks, probe>>

Next ==
    \/ Open
    \/ Fetch
    \/ Parse
    \/ Alloc
    \/ DrawTime
    \/ DrawDate
    \/ Temperature
    \/ Precip
    \/ Wind
    \/ Summary
    \/ Daily
    \/ ConditionIcon
    \/ WriteLen
    \/ WritePayload

Spec == Init /\ [][Next]_vars

----------------------------------------------------------------------------
(* SpecDisplay: a Display over a freshly allocated buffer, driven by       *)
(* set_pixel and draw calls.  probe records the last call: its arguments,  *)
(* for a set_pixel the buffer before it and, for a draw, the coordinates   *)
(* of the source drawn just before it.                                     *)

\* coordinates of the calls: inside the grid (two of them in one byte),
\* below it (y >= ROWS) and to the right of it (x >= COLS)
CallCoords == {<<0, 0>>, <<0, 1>>, <<249, 127>>, <<1, 128>>, <<0, 128>>,
               <<250, 128>>}

\* coordinates of the pixels of a drawn source
SourceCoords == {<<0, 0>>, <<0, 1>>, <<1, 128>>, <<0, 128>>}

CallPixels == {Pixel(c[1], c[2], col) : c \in SourceCoords, col \in Colors}

\* sources of one or two pixels
CallSources == {<<p>> : p \in CallPixels} \cup {<<p, q>> : p, q \in CallPixels}

CoordsOf(src) == {<<src[k].x, src[k].y>> : k \in 1..Len(src)}

InitDisplay ==
    /\ pc = "display"
    /\ outcome = "running"
    /\ forecast = NoForecast
    /\ buff = new_buffer
    /\ serial = << >>
    /\ drawn = << >>
    /\ count = 0
    /\ glyph = << >>
    /\ overflow_checks \in BOOLEAN
    /\ probe = [op |-> "new"]

\* what a call that ends in display value d leaves
Called(d, p) ==
    /\ pc = "display" /\ outcome = "running"
    /\ buff' = d.buff
    /\ outcome' = IF d.panicked THEN "panic" ELSE "running"
    /\ probe' = p
    /\ UNCHANGED <<pc, forecast, serial, drawn, count, glyph, overflow_checks>>

\* display.set_pixel(x, y, color)
SetPixelCall ==
    \E c \in CallCoords, col \in Colors :
        Called(set_pixel(Disp(buff, FALSE), c[1], c[2], col, overflow_checks),
               [op |-> "set_pixel", x |-> c[1], y |-> c[2], c |-> col,
                before |-> buff])

\* display.set_pixel(x, y, Black); display.set_pixel(x, y, White)
PairCall ==
    \E c \in CallCoords :
        Called(set_pixel(set_pixel(Disp(buff, FALSE), c[1], c[2], "Black",
                                   overflow_checks),
                         c[1], c[2], "White", overflow_checks),
               [op |-> "pair", x |-> c[1], y |-> c[2], before |-> buff])

\* display.draw(src)
DrawCall ==
    \E src \in CallSources :
        Called(draw(Disp(buff, FALSE), src, overflow_checks),
               [op |-> "draw", src |-> src,
                earlier |-> IF probe.op = "draw" THEN CoordsOf(probe.src)
                            ELSE {}])

NextDisplay ==
    \/ SetPixelCall
    \/ PairCall
    \/ DrawCall

SpecDisplay == InitDisplay /\ [][NextDisplay]_vars

----------------------------------------------------------------------------
(* SpecMap: the address computation of set_pixel on every coordinate of    *)
(* a square that holds the grid in both orientations and a margin.         *)

\* coordinates 0 .. MapSpan - 1 in both directions
MapSpan == 256

InitMap ==
    /\ pc = "map"
    /\ outcome = "running"
    /\ forecast = NoForecast
    /\ buff = NoBuffer
    /\ serial = << >>
    /\ drawn = << >>
    /\ count = 0
    /\ glyph = << >>
    /\ overflow_checks = FALSE
    /\ probe \in {[op |-> "coord", x |-> x, y |-> y] :
                    x \in 0..(MapSpan - 1), y \in 0..(MapSpan - 1)}

\* let (index, bit) = get_bit(x, y, ROWS as u32, COLS as u32), line 58
MapCoord ==
    /\ pc = "map" /\ probe.op = "coord"
    /\ probe' = [op |-> "mapped", x |-> probe.x, y |-> probe.y,
                 addr |-> pixel_addr(probe.x, probe.y)]
    /\ UNCHANGED <<pc, outcome, forecast, buff, serial, drawn, count, glyph,
                   overflow_checks>>

NextMap == MapCoord

SpecMap == InitMap /\ [][NextMap]_vars

----------------------------------------------------------------------------
(* Properties of the address computation (SpecMap)                         *)

Mapped == probe.op = "mapped"

Masks == {128, 64, 32, 16, 8, 4, 2, 1}

\* the position k (0 = most significant) of the one bit of mask m
BitNo(m) == CHOOSE k \in 0..7 : 128 \div Pow2(k) = m

\* the coordinate whose pixel is bit m of byte i
CoordOf(i, m) ==
    <<COLS - 1 - (i \div (ROWS \div 8)), 8 * (i % (ROWS \div 8)) + BitNo(m)>>

SameBit(a, b) == a.index = b.index /\ a.bit = b.bit

\* C1, as stated: for 0 <= x < ROWS and 0 <= y < COLS the (index, mask) of
\* (x, y) lies inside the buffer and no other coordinate of that range has
\* the same (index, mask); with ROWS * COLS = 8 * BufLen coordinates that
\* makes the map a bijection onto the bits of the buffer.
C1_BijectionOnRowsByCols ==
    (Mapped /\ probe.x < ROWS /\ probe.y < COLS) =>
        /\ Below(probe.addr.index, BufLen)
        /\ ROWS * COLS = 8 * BufLen
        /\ \A x2 \in 0..(ROWS - 1), y2 \in 0..(COLS - 1) :
              SameBit(pixel_addr(x2, y2), probe.addr)
                  => (x2 = probe.x /\ y2 = probe.y)

\* C1, amended: for 0 <= x < COLS and 0 <= y < ROWS the (index, mask) of
\* (x, y) lies inside the buffer, (x, y) is recovered from it (so distinct
\* coordinates have distinct pairs), and every bit of the buffer is the
\* image of a coordinate of that range: here the bit number x * ROWS + y,
\* which runs through all 8 * BufLen bits as (x, y) runs through the range.
C1_BijectionOnColsByRows ==
    (Mapped /\ probe.x < COLS /\ probe.y < ROWS) =>
        /\ ~probe.addr.ovf
        /\ Below(probe.addr.index, BufLen)
        /\ probe.addr.bit \in Masks
        /\ CoordOf(probe.addr.index.lo, probe.addr.bit) = <<probe.x, probe.y>>
        /\ ROWS * COLS = 8 * BufLen
        /\ LET r == probe.x * ROWS + probe.y
               i == r \div 8
               m == 128 \div Pow2(r % 8)
               c == CoordOf(i, m)
           IN  /\ c[1] \in 0..(COLS - 1) /\ c[2] \in 0..(ROWS - 1)
               /\ pixel_addr(c[1], c[2])
                    = [index |-> WrapU32(i), bit |-> m, ovf |-> FALSE]

\* the far corner of the grid is the lowest bit of byte 15
C1_Witness ==
    /\ Mapped /\ probe.x = COLS - 1 /\ probe.y = ROWS - 1
    /\ probe.addr.index = WrapU32(15) /\ probe.addr.bit = 1

\* C2, as stated: set_pixel addresses byte y/8 + (ROWS-1-x) * (COLS/8) and
\* mask 0x80 >> (y mod 8), for x in [0, ROWS) and y in [0, COLS).
C2_IndexWithHeightRows ==
    (Mapped /\ probe.x < ROWS /\ probe.y < COLS) =>
        /\ probe.addr.index.hi = 0
        /\ probe.addr.index.lo
             = (probe.y \div 8) + (ROWS - 1 - probe.x) * (COLS \div 8)
        /\ probe.addr.bit = 128 \div Pow2(probe.y % 8)

\* C2, amended: set_pixel addresses byte y/8 + (COLS-1-x) * (ROWS/8) and
\* mask 0x80 >> (y mod 8): get_bit's `height` is COLS and its `width` is
\* ROWS.  Checked for every x below COLS, where no operation wraps.
C2_IndexWithHeightCols ==
    (Mapped /\ probe.x < COLS) =>
        /\ ~probe.addr.ovf
        /\ probe.addr.index.hi = 0
        /\ probe.addr.index.lo
             = (probe.y \div 8) + (COLS - 1 - probe.x) * (ROWS \div 8)
        /\ probe.addr.bit = 128 \div Pow2(probe.y % 8)

\* the origin is the highest bit of byte 3984 = 249 * 16
C2_Witness ==
    /\ Mapped /\ probe.x = 0 /\ probe.y = 0
    /\ probe.addr.index.lo = 3984 /\ probe.addr.bit = 128

----------------------------------------------------------------------------
(* Properties of a run of main (Spec)                                      *)

\* the u32 (as its halves) a 4-byte big-endian string stands for
DecodeBE(b) == [hi |-> b[1] * 256 + b[2], lo |-> b[3] * 256 + b[4]]

Composed == pc \in {"write_len", "write_buf", "done"}

\* the entries of the draw log with a name in `names`
DrawnOf(names) == SelectSeq(drawn, LAMBDA e : e.item \in names)

Arrows == {"arrow_north", "arrow_north_east", "arrow_east",
           "arrow_south_east", "arrow_south", "arrow_south_west",
           "arrow_west", "arrow_north_west"}

\* C3: what the serial port is given is, in this order and with nothing
\* else, one write of the 4-byte big-endian encoding of N = ROWS*COLS/8 and
\* one write of the N bytes of the framebuffer; a run that returns Ok has
\* made both writes.
C3_Framing ==
    /\ Len(serial) <= 2
    /\ Len(serial) >= 1 =>
          /\ Len(serial[1]) = 4
          /\ \A k \in 1..4 : serial[1][k] \in 0..255
          /\ DecodeBE(serial[1]) = WrapU32(BufLen)
          /\ DecodeBE(serial[1]) = WrapU32(buff.len)
    /\ Len(serial) = 2 => serial[2] = buff /\ serial[2].len = BufLen
    /\ outcome = "ok" => Len(serial) = 2
    /\ Len(serial) = 1 <=> pc = "write_buf"
    /\ Len(serial) = 2 <=> pc = "done"

\* a finished run whose frame carries drawn pixels
C3_Witness ==
    /\ outcome = "ok" /\ Len(serial) = 2
    /\ serial[1] = <<0, 0, 15, 160>>
    /\ serial[2] = buff
    /\ DOMAIN buff.diff # {}

\* C4: the serial port is written only after retrieval and parsing have
\* succeeded and the composition has been gone through to its end; after
\* the first write the framebuffer does not change; a run that ended in a
\* retrieval or parse error has built no framebuffer and written nothing.
C4_WriteAfterCompose ==
    /\ [](serial # << >> =>
            /\ pc \in {"write_buf", "done"}
            /\ outcome # "err"
            /\ Len(DrawnOf({"time"})) = 1 /\ Len(DrawnOf({"date"})) = 1)
    /\ [](outcome = "err" =>
            buff = NoBuffer /\ serial = << >> /\ drawn = << >>)
    /\ [][serial # << >> => buff' = buff]_vars

\* the prefix has been written, after a composition that drew the optional
\* elements too
C4_Witness ==
    /\ pc = "write_buf" /\ Len(serial) = 1
    /\ Len(drawn) > 4
    /\ DOMAIN buff.diff # {}

HasDailySummary ==
    /\ IsSome(forecast.daily)
    /\ IsSome(Unwrap(forecast.daily).data)
    /\ Len(Unwrap(Unwrap(forecast.daily).data)) > 0
    /\ IsSome(Unwrap(Unwrap(forecast.daily).data)[1].summary)

\* C5: once the composition is over, the "Today: " block has been drawn
\* whenever the first entry of the daily data has a summary, whether or
\* not the `currently` block is present.
C5_DailyDrawnWheneverPresent ==
    (Composed /\ HasDailySummary) => Len(DrawnOf({"today_line"})) >= 1

\* C6: once the "Currently: " block of an n-line summary is drawn, its
\* line k (from 0) was drawn at x = 130, y = 20 + 10 * k.
C6_CurrentlyLinesTenApart ==
    (/\ pc \in {"daily", "icon", "write_len", "write_buf", "done"}
     /\ IsSome(forecast.currently)
     /\ IsSome(Cur.summary)) =>
        LET lines == DrawnOf({"currently_line"})
        IN  /\ Len(lines) = Unwrap(Cur.summary)
            /\ \A k \in 1..Len(lines) :
                  lines[k].x = 130 /\ lines[k].y = 20 + 10 * (k - 1)

\* the sectors of the claim: <<first, one past last, icon>>
Sectors == {<<337, 360, "arrow_north">>, <<0, 22, "arrow_north">>,
            <<22, 67, "arrow_north_east">>, <<67, 112, "arrow_east">>,
            <<112, 157, "arrow_south_east">>, <<157, 202, "arrow_south">>,
            <<202, 247, "arrow_south_west">>, <<247, 292, "arrow_west">>,
            <<292, 337, "arrow_north_west">>}

SectorIcon(b) ==
    IF \E s \in Sectors : s[1] <= b /\ b < s[2]
    THEN (CHOOSE s \in Sectors : s[1] <= b /\ b < s[2])[3]
    ELSE "arrow_north"

\* C7: once the wind step is over, an arrow has been drawn exactly when
\* wind speed and wind bearing are both present; it is then the one arrow
\* of the sector that holds the bearing truncated to an integer (north
\* for a value outside 0..359), drawn at (86, 44).
C7_WindIconBySector ==
    pc \in {"summary", "daily", "icon", "write_len", "write_buf", "done"} =>
        LET arrows == DrawnOf(Arrows)
        IN  IF /\ IsSome(forecast.currently)
               /\ IsSome(Cur.wind_speed)
               /\ IsSome(Cur.wind_bearing)
            THEN /\ Len(arrows) = 1
                 /\ arrows[1] = Item(SectorIcon(AsI32(Unwrap(Cur.wind_bearing))),
                                     86, 44)
            ELSE Len(arrows) = 0

\* a bearing of exactly 22 degrees selects north-east
C7_Witness ==
    /\ pc = "done"
    /\ IsSome(forecast.currently)
    /\ Cur.wind_bearing = Some(220)
    /\ DrawnOf(Arrows) = <<Item("arrow_north_east", 86, 44)>>

\* C10: when the composition starts (nothing drawn yet) the framebuffer has
\* ROWS*COLS/8 bytes, all 0xFF, and from then on its length stays
\* ROWS*COLS/8.
C10_FreshFramebuffer ==
    /\ (pc = "time" /\ drawn = << >>) =>
          /\ buff.len = (ROWS * COLS) \div 8
          /\ buff.fill = 255
          /\ DOMAIN buff.diff = {}
          /\ \A i \in {0, 1, buff.len \div 2, buff.len - 1} :
                ByteAt(buff, i) = 255
    /\ pc \notin {"open", "fetch", "parse", "alloc"} =>
          buff.len = (ROWS * COLS) \div 8

\* the buffer just allocated, before the first draw
C10_Witness ==
    /\ pc = "time" /\ outcome = "running" /\ drawn = << >>
    /\ buff.len = 4000 /\ ByteAt(buff, 3999) = 255

----------------------------------------------------------------------------
(* Properties of Display (SpecDisplay)                                     *)

\* the colour of the last pixel of src at coordinate c
LastColor(src, c) ==
    LET ks == {k \in 1..Len(src) : <<src[k].x, src[k].y>> = c}
    IN  src[CHOOSE k \in ks : \A j \in ks : j <= k].c

PairDone == probe.op = "pair" /\ outcome = "running"

\* C8, as stated: after set_pixel(x, y, Black) then set_pixel(x, y, White)
\* the bit of (x, y) has the value it had before the two writes.
C8_PairRestoresBit ==
    PairDone => (BitAt(buff, probe.x, probe.y)
                    = BitAt(probe.before, probe.x, probe.y))

\* C8, amended: after the two writes the bit of (x, y) is 1 (White), so it
\* has its earlier value exactly when that value was 1.
C8_PairLeavesWhite ==
    PairDone =>
        /\ BitAt(buff, probe.x, probe.y)
        /\ (BitAt(buff, probe.x, probe.y) = BitAt(probe.before, probe.x, probe.y))
              <=> BitAt(probe.before, probe.x, probe.y)

\* the two writes on a pixel that was Black
C8_Witness ==
    /\ PairDone
    /\ ~BitAt(probe.before, probe.x, probe.y)
    /\ BitAt(buff, probe.x, probe.y)

\* C9: after a draw, the bit of every coordinate the source has a pixel at
\* encodes the colour of the last pixel the source has there (White 1,
\* Black 0); so it does at the coordinates the source shares with the
\* source drawn before it.
C9_LaterSourceWins ==
    (probe.op = "draw" /\ outcome = "running") =>
        /\ \A c \in CoordsOf(probe.src) \cap probe.earlier :
              BitAt(buff, c[1], c[2]) = ColorBit(LastColor(probe.src, c))
        /\ \A c \in CoordsOf(probe.src) :
              BitAt(buff, c[1], c[2]) = ColorBit(LastColor(probe.src, c))

\* the pixel grid: the coordinates whose bits tile the buffer
InGrid(x, y) == 0 <= x /\ x < COLS /\ 0 <= y /\ y < ROWS

\* C11: a set_pixel call with a coordinate outside the pixel grid panics
\* and leaves every bit of the buffer as it was (so no such coordinate is
\* written onto the bit of a pixel of the grid).
C11_OutOfGridPanics ==
    (probe.op = "set_pixel" /\ ~InGrid(probe.x, probe.y)) =>
        /\ outcome = "panic"
        /\ buff = probe.before

----------------------------------------------------------------------------
(* SpecGrid: a Display over a freshly allocated buffer on which only       *)
(* coordinates of the pixel grid are written.  probe records the last      *)
(* call, the buffer before it and, in `last`, the colour last written at   *)
(* each coordinate written so far.                                         *)

\* coordinates of the grid: two in one byte, the next byte, the next
\* column, the far corner, the middle
GridCoords == {<<0, 0>>, <<0, 1>>, <<0, 8>>, <<1, 0>>, <<249, 127>>,
               <<130, 64>>}

InitGrid ==
    /\ pc = "grid"
    /\ outcome = "running"
    /\ forecast = NoForecast
    /\ buff = new_buffer
    /\ serial = << >>
    /\ drawn = << >>
    /\ count = 0
    /\ glyph = << >>
    /\ overflow_checks \in BOOLEAN
    /\ probe = [op |-> "new", last |-> << >>]

\* display.set_pixel(x, y, color) with (x, y) in the grid
GridSetPixel ==
    /\ pc = "grid" /\ outcome = "running"
    /\ \E c \in GridCoords, col \in Colors :
          LET d == set_pixel(Disp(buff, FALSE), c[1], c[2], col, overflow_checks)
          IN  /\ buff' = d.buff
              /\ outcome' = IF d.panicked THEN "panic" ELSE "running"
              /\ probe' = [op |-> "set_pixel", x |-> c[1], y |-> c[2],
                           c |-> col, before |-> buff,
                           last |-> (c :> col) @@ probe.last]
    /\ UNCHANGED <<pc, forecast, serial, drawn, count, glyph, overflow_checks>>

NextGrid == GridSetPixel

SpecGrid == InitGrid /\ [][NextGrid]_vars

\* the bytes two buffers can differ in, and byte i as well
Touched(a, b, i) == (DOMAIN a.diff) \cup (DOMAIN b.diff) \cup {i}

\* C12: a set_pixel call with 0 <= x < COLS, 0 <= y < ROWS does not panic,
\* gives the bit (index, mask) of (x, y) the colour written and leaves every
\* other bit of the buffer as it was; that bit is not the bit of any other
\* coordinate written so far; and after the call every coordinate written
\* so far shows the colour last written to it, while every bit that is not
\* the bit of a coordinate last written Black is 1 (Background).
C12_SingleBitWrite ==
    probe.op = "set_pixel" =>
        LET a == pixel_addr(probe.x, probe.y)
            i == a.index.lo
        IN  /\ InGrid(probe.x, probe.y)
            /\ outcome = "running"
            /\ Below(a.index, buff.len)
            /\ buff.len = probe.before.len /\ buff.fill = probe.before.fill
            /\ \A j \in Touched(buff, probe.before, i) :
                  j # i => ByteAt(buff, j) = ByteAt(probe.before, j)
            /\ \A m \in Masks \ {a.bit} :
                  BitSet(ByteAt(buff, i), m) = BitSet(ByteAt(probe.before, i), m)
            /\ BitSet(ByteAt(buff, i), a.bit) = ColorBit(probe.c)
            /\ \A c \in DOMAIN probe.last :
                  /\ c # <<probe.x, probe.y>> => ~SameBit(pixel_addr(c[1], c[2]), a)
                  /\ BitAt(buff, c[1], c[2]) = ColorBit(probe.last[c])
            /\ buff.fill = 255
            /\ \A j \in DOMAIN buff.diff, m \in Masks :
                  ~BitSet(ByteAt(buff, j), m) =>
                      \E c \in DOMAIN probe.last :
                          /\ probe.last[c] = "Black"
                          /\ pixel_addr(c[1], c[2]).index = WrapU32(j)
                          /\ pixel_addr(c[1], c[2]).bit = m

\* (0, 0) is written White after Black while its neighbour in the same
\* byte, written Black earlier, stays Black
C12_Witness ==
    /\ probe.op = "set_pixel" /\ outcome = "running"
    /\ probe.x = 0 /\ probe.y = 0 /\ probe.c = "White"
    /\ ~BitAt(probe.before, 0, 0) /\ BitAt(buff, 0, 0)
    /\ <<0, 1>> \in DOMAIN probe.last /\ probe.last[<<0, 1>>] = "Black"
    /\ ~BitAt(buff, 0, 1)

----------------------------------------------------------------------------
(* Abort-freedom of the composition (Spec)                                 *)

\* every source drawn so far has only pixels of the grid
SourcesInGrid ==
    \A k \in 1..Len(drawn), j \in 1..Len(glyph) :
        InGrid(drawn[k].x + glyph[j].dx, drawn[k].y + glyph[j].dy)

\* C13: with every source inside the grid, a run whose forecast has been
\* parsed does not panic during the composition (a panic is then one of
\* the serial port: opening it or writing to it), and a run that returns
\* Ok has emitted exactly one frame, prefix and payload.
C13_CompositionNeverAborts ==
    SourcesInGrid =>
        /\ outcome = "panic" => pc \in {"open", "write_len", "write_buf"}
        /\ outcome = "ok" => Len(serial) = 2 /\ serial[2] = buff

====
